---------------------------- MODULE Spec2Model ----------------------------
(***************************************************************************)
(* django-thumbnail-works: the crop-and-resize geometry (cropresize.py),   *)
(* the ImageProcessor's option validation, naming and processing pipeline  *)
(* (images.py).                                                            *)
(*                                                                         *)
(* Python values are modelled as follows.                                  *)
(*   - a str is a sequence of one-character strings and a tuple of ints *)
(*     a sequence of integers; None in the place of either is the          *)
(*     sequence <<"None">>, which is neither;                              *)
(*   - the argument and attribute proc_opts is a record tagged with its    *)
(*     type: NoneType, dict (with its items, a sequence of <<key, value>>  *)
(*     pairs in insertion order) or another type;                          *)
(*   - an unset target dimension is 0 (falsy, like None, under `not` and   *)
(*     `and`, which is all crop_resize does with it before deriving it);   *)
(*   - a PIL image is a record of its size, its mode, its EXIF orientation *)
(*     tag and the history of the transformations applied to it;           *)
(*   - float arithmetic of crop_resize is evaluated exactly on integers.   *)
(*     For dimensions below 15 the double-precision evaluation of lines    *)
(*     107-131 gives the same integers (beyond, int() of a product that is *)
(*     mathematically an integer k may come out as k-1).                   *)
(***************************************************************************)
EXTENDS Integers, Sequences, FiniteSets, TLC

VARIABLES
    cr,         \* the last crop_resize call: its arguments, locals and result
    settings,   \* thumbnail_works.settings (process-wide)
    self,       \* the ImageProcessor instance: identifier, proc_opts, ext
    op,         \* the ImageProcessor method called last
    args,       \* its arguments
    raised,     \* the exception it raised (NoError when it returned)
    ret,        \* the value it returned
    pc,         \* process_image: the statement reached
    im,         \* process_image: the local `im`
    out         \* process_image: the encoded result

vars == <<cr, settings, self, op, args, raised, ret, pc, im, out>>

\* ------------------------------------------------------------- bounds
MaxDim == 5        \* stored image width and height range over 1..MaxDim
MaxTarget == 5     \* a target dimension ranges over 0..MaxTarget (0: unset)

Unset == 0
None == <<"None">>                   \* None where a str or a tuple may stand
NoneObj == [type |-> "NoneType"]     \* None where a dict may stand
NoError == [exc |-> ""]     \* no exception raised

\* --------------------------------------------------------- PIL images
Modes == {"L", "RGB", "RGBA", "P", "CMYK"}

\* EXIF orientation tag values: 0 stands for an image with no EXIF data
\* (_getexif missing or the tag absent: AttributeError / KeyError), 1 for a
\* tag with any value other than 3, 6, 8.
NoExif == 0
Orientations == {NoExif, 1, 3, 6, 8}

NewImage(w, h, mode, o) ==
    [size |-> <<w, h>>, mode |-> mode, orientation |-> o, history |-> <<>>]

Applied(image, name, arg) ==
    Append(image.history, [op |-> name, arg |-> arg])

\* Image.rotate(angle, expand=True): a quarter turn swaps width and height.
rotate(image, angle) ==
    [image EXCEPT !.size = IF angle \in {90, 270}
                           THEN <<image.size[2], image.size[1]>>
                           ELSE image.size,
                  !.history = Applied(image, "rotate", <<angle>>)]

\* Image.crop(box): the result has the box's size, wherever the box lies.
crop_image(image, box) ==
    [image EXCEPT !.size = <<box[3] - box[1], box[4] - box[2]>>,
                  !.history = Applied(image, "crop", box)]

\* Image.resize(size, ANTIALIAS): the result has the size it is given.
resize(image, size) ==
    [image EXCEPT !.size = size,
                  !.history = Applied(image, "resize", size)]

\* ------------------------------------------------- crop_resize, by line
\* Lines 86-99: the rotation the orientation tag asks for.
normalize_orientation(image) ==
    IF image.orientation = 3 THEN rotate(image, 180)
    ELSE IF image.orientation = 6 THEN rotate(image, 270)
    ELSE IF image.orientation = 8 THEN rotate(image, 90)
    ELSE image

\* Line 107: int(original_height * new_width / float(original_width)).
DeriveHeightMutant(original_width, original_height, new_width) ==
    (original_height * new_width + original_width - 1) \div original_width

derive_height(original_width, original_height, new_width) ==
    (original_height * new_width) \div original_width

\* Line 110: int(original_width * new_height / float(original_height)).
derive_width(original_width, original_height, new_height) ==
    (original_width * new_height) \div original_height

\* Lines 114-117: the early return of the image as it is.
UnchangedMutant(original_width, original_height, new_width, new_height, exact_size) ==
    new_width > original_width /\ new_height > original_height

returns_unchanged(original_width, original_height, new_width, new_height, exact_size) ==
    new_width > original_width /\ new_height > original_height /\ ~exact_size

\* Lines 125-132: the box handed to image.crop, <<>> when no branch is taken.
\* original_aspect_ration > new_aspect_ratio is w/h > nw/nh, cross-multiplied.
CropBoxMutant(original_width, original_height, new_width, new_height) ==
    IF original_width * new_height > new_width * original_height
    THEN LET xoffset == (original_width * new_height - new_width * original_height)
                            \div new_height
         IN  <<xoffset, 0, original_width - xoffset, original_height>>
    ELSE IF original_width * new_height < new_width * original_height
    THEN LET yoffset == (original_height * new_width - original_width * new_height)
                            \div new_width
         IN  <<0, yoffset, original_width, original_height - yoffset>>
    ELSE <<>>

crop_box(original_width, original_height, new_width, new_height) ==
    IF original_width * new_height > new_width * original_height
    THEN \* int(0.5 * (original_width - new_aspect_ratio * original_height))
         LET xoffset == (original_width * new_height - new_width * original_height)
                            \div (2 * new_height)
         IN  <<xoffset, 0, original_width - xoffset, original_height>>
    ELSE IF original_width * new_height < new_width * original_height
    THEN \* int(0.5 * (original_height - original_width / new_aspect_ratio))
         LET yoffset == (original_height * new_width - original_width * new_height)
                            \div (2 * new_width)
         IN  <<0, yoffset, original_width, original_height - yoffset>>
    ELSE <<>>

\* The whole function: its locals and what it returns or raises.
\*   outcome: "AssertionError" (line 81), "ZeroDivisionError" (line 112),
\*            "unchanged" (line 117), "resized" (line 134)
\*   cropped: the size of the image image.crop was called on, <<>> if none
crop_resize(image, size, exact_size) ==
    LET original_width == image.size[1]
        original_height == image.size[2]
        rotated == normalize_orientation(image)
        crop == size[1] # Unset /\ size[2] # Unset
        new_height == IF size[2] = Unset
                      THEN derive_height(original_width, original_height, size[1])
                      ELSE size[2]
        new_width == IF size[1] = Unset
                     THEN derive_width(original_width, original_height, new_height)
                     ELSE size[1]
        box == IF crop
               THEN crop_box(original_width, original_height, new_width, new_height)
               ELSE <<>>
        cropped == IF box # <<>> THEN crop_image(rotated, box) ELSE rotated
        base == [image |-> image, size |-> size, exact_size |-> exact_size,
                 original_width |-> original_width,
                 original_height |-> original_height,
                 rotated |-> image, crop |-> FALSE,
                 new_width |-> size[1], new_height |-> size[2],
                 box |-> <<>>, cropped |-> <<>>, resize_size |-> <<>>,
                 outcome |-> "AssertionError", result |-> image]
    IN  IF size[1] = Unset /\ size[2] = Unset THEN base
        ELSE IF new_height = 0
        THEN [base EXCEPT !.rotated = rotated, !.crop = crop,
                          !.new_width = new_width, !.new_height = new_height,
                          !.outcome = "ZeroDivisionError"]
        ELSE IF returns_unchanged(original_width, original_height,
                                  new_width, new_height, exact_size)
        THEN [base EXCEPT !.rotated = rotated, !.crop = crop,
                          !.new_width = new_width, !.new_height = new_height,
                          !.outcome = "unchanged", !.result = rotated]
        ELSE [base EXCEPT !.rotated = rotated, !.crop = crop,
                          !.new_width = new_width, !.new_height = new_height,
                          !.box = box,
                          !.cropped = IF box # <<>> THEN rotated.size ELSE <<>>,
                          !.resize_size = size,
                          !.outcome = "resized",
                          !.result = resize(cropped, size)]

\* ------------------------------------------------------ initial values

InitRest ==
    /\ settings = [THUMBNAILS_FORMAT |-> <<"J", "P", "E", "G">>,
                   THUMBNAILS_DIRNAME |-> <<>>]
    /\ self = [identifier |-> None, proc_opts |-> NoneObj, ext |-> None]
    /\ op = "" /\ args = <<>> /\ raised = NoError /\ ret = None
    /\ pc = "idle" /\ im = <<>> /\ out = <<>>

\* ------------------------------------------- the geometry specification
Images == {NewImage(w, h, "RGB", o) : w \in 1..MaxDim, h \in 1..MaxDim,
                                      o \in Orientations}
Targets == (0..MaxTarget) \X (0..MaxTarget)

\* A call not yet made: the arguments it will be made with.
Pending(image, size, exact_size) ==
    [outcome |-> "pending", image |-> image, size |-> size,
     exact_size |-> exact_size]

CallCropResize ==
    /\ cr.outcome = "pending"
    /\ cr' = crop_resize(cr.image, cr.size, cr.exact_size)
    /\ UNCHANGED <<settings, self, op, args, raised, ret, pc, im, out>>

InitGeom ==
    /\ cr \in {Pending(image, size, exact_size) :
                   image \in Images, size \in Targets, exact_size \in BOOLEAN}
    /\ InitRest
NextGeom == CallCropResize
SpecGeom == InitGeom /\ [][NextGeom]_vars

\* ------------------------------------------------ str and os.path
ToLower(c) ==
    CASE c = "J" -> "j" [] c = "P" -> "p" [] c = "E" -> "e" [] c = "G" -> "g"
      [] c = "N" -> "n" [] OTHER -> c

\* str.lower()
lower(str) == [i \in 1..Len(str) |-> ToLower(str[i])]

\* str.rfind(c) + 1: the last position of c, 0 when there is none.
RFind(str, c) ==
    LET at == {i \in 1..Len(str) : str[i] = c}
    IN  IF at = {} THEN 0 ELSE CHOOSE i \in at : \A j \in at : j <= i

\* str.rstrip('/')
RStripSep(str) ==
    LET keep == {i \in 1..Len(str) : str[i] # "/"}
    IN  IF keep = {} THEN <<>>
        ELSE SubSeq(str, 1, CHOOSE i \in keep : \A j \in keep : j <= i)

\* posixpath.dirname
dirname(path) ==
    LET head == SubSeq(path, 1, RFind(path, "/"))
    IN  IF head # <<>> /\ (\E i \in 1..Len(head) : head[i] # "/")
        THEN RStripSep(head) ELSE head

\* posixpath.basename
basename(path) == SubSeq(path, RFind(path, "/") + 1, Len(path))

\* posixpath.splitext: the last dot splits, unless only dots precede it in
\* the file name.
splitext(path) ==
    LET sepIndex == RFind(path, "/")
        dotIndex == RFind(path, ".")
    IN  IF /\ dotIndex > sepIndex
           /\ \E i \in (sepIndex + 1)..(dotIndex - 1) : path[i] # "."
        THEN <<SubSeq(path, 1, dotIndex - 1), SubSeq(path, dotIndex, Len(path))>>
        ELSE <<path, <<>>>>

\* posixpath.join(a, b)
join(a, b) ==
    IF b # <<>> /\ b[1] = "/" THEN b
    ELSE IF a = <<>> \/ a[Len(a)] = "/" THEN a \o b
    ELSE a \o <<"/">> \o b

\* ------------------------------------------------------------- dicts
Dict(items) == [type |-> "dict", items |-> items]
IsDict(x) == x.type = "dict"
Keys(d) == {d.items[i][1] : i \in 1..Len(d.items)}
Get(d, k) == d.items[CHOOSE i \in 1..Len(d.items) : d.items[i][1] = k][2]

\* d[k] = v
SetItem(d, k, v) ==
    IF k \in Keys(d)
    THEN Dict([i \in 1..Len(d.items) |->
                  IF d.items[i][1] = k THEN <<k, v>> ELSE d.items[i]])
    ELSE Dict(Append(d.items, <<k, v>>))

\* d.update(other): other's items written into d, in other's order.
RECURSIVE UpdateFrom(_, _, _)
UpdateFrom(d, other, i) ==
    IF i > Len(other.items) THEN d
    ELSE UpdateFrom(SetItem(d, other.items[i][1], other.items[i][2]), other, i + 1)

UpdateMutant(d, other) ==
    Dict(d.items \o SelectSeq(other.items, LAMBDA it : it[1] \notin Keys(d)))

update(d, other) == UpdateFrom(d, other, 1)

\* ---------------------------------------------------- ImageProcessor
JPEG == <<"J", "P", "E", "G">>
PNG == <<"P", "N", "G">>

DEFAULT_OPTIONS ==
    Dict(<< <<"size", None>>, <<"sharpen", FALSE>>, <<"detail", FALSE>>,
            <<"upscale", FALSE>>, <<"format", settings.THUMBNAILS_FORMAT>> >>)

\* Lines 67-69: the first key, in the dict's order, that is no option; ""
\* when every key is one.
FirstInvalidMutant(proc_opts) ==
    IF Len(proc_opts.items) > 0 /\ proc_opts.items[1][1] \notin Keys(DEFAULT_OPTIONS)
    THEN proc_opts.items[1][1] ELSE ""

FirstInvalidOption(proc_opts) ==
    LET bad == {i \in 1..Len(proc_opts.items) :
                    proc_opts.items[i][1] \notin Keys(DEFAULT_OPTIONS)}
    IN  IF bad = {} THEN ""
        ELSE proc_opts.items[CHOOSE i \in bad : \A j \in bad : i <= j][1]

ThumbnailOptionError(option) == [exc |-> "ThumbnailOptionError", option |-> option]

\* setup_image_processing_options: what it raises and self.proc_opts after.
setup_image_processing_options(this, proc_opts) ==
    IF proc_opts.type = "NoneType"
    THEN IF this.identifier # None
         THEN [raised |-> ThumbnailOptionError(""), self |-> this]
         ELSE [raised |-> NoError, self |-> [this EXCEPT !.proc_opts = NoneObj]]
    ELSE IF ~IsDict(proc_opts)
    THEN [raised |-> ThumbnailOptionError(""), self |-> this]
    ELSE IF FirstInvalidOption(proc_opts) # ""
    THEN [raised |-> ThumbnailOptionError(FirstInvalidOption(proc_opts)),
          self |-> this]
    ELSE [raised |-> NoError,
          self |-> [this EXCEPT !.proc_opts = update(DEFAULT_OPTIONS, proc_opts)]]

\* '%s' % x for a str or None
Format(x) == IF x = None THEN <<"N", "o", "n", "e">> ELSE x

\* Python truth of a str or None
Truthy(x) == x # None /\ x # <<>>

ExtensionMutant(this) ==
    IF ~IsDict(this.proc_opts) THEN None
    ELSE LET ext == Get(this.proc_opts, "format")
         IN  IF ext = <<"j", "p", "e", "g">> THEN <<".", "j", "p", "g">>
             ELSE <<".">> \o Format(ext)

get_image_extension(this) ==
    IF ~IsDict(this.proc_opts) THEN None
    ELSE LET format == Get(this.proc_opts, "format")
             ext == IF Truthy(format) THEN lower(format) ELSE format
         IN  IF ext = <<"j", "p", "e", "g">> THEN <<".", "j", "p", "g">>
             ELSE <<".">> \o Format(ext)

ThumbnailWorksError == [exc |-> "ThumbnailWorksError"]

\* generate_image_name: what it raises or returns, and self after.
generate_image_name(this, name, force_ext) ==
    IF ~Truthy(name)
    THEN [raised |-> ThumbnailWorksError, ret |-> None, self |-> this]
    ELSE LET root_dir == dirname(name)
             filename == basename(name)
             base_filename == splitext(filename)[1]
             default_ext == splitext(filename)[2]
             ext == IF force_ext # None THEN force_ext
                    ELSE IF get_image_extension(this) = None THEN default_ext
                    ELSE get_image_extension(this)
             image_filename ==
                 IF this.identifier = None
                 THEN base_filename \o ext
                 ELSE base_filename \o <<".">> \o this.identifier \o ext
         IN  [raised |-> NoError,
              self |-> [this EXCEPT !.ext = ext],
              ret |-> IF this.identifier = None
                      THEN join(root_dir, image_filename)
                      ELSE IF Truthy(settings.THUMBNAILS_DIRNAME)
                      THEN join(join(root_dir, settings.THUMBNAILS_DIRNAME),
                                image_filename)
                      ELSE join(root_dir, image_filename)]

\* -------------------------------- the option-validation specification
MaxOpts == 2       \* a supplied dict has at most MaxOpts items
MaxNameLen == 4    \* a base name over Chars has at most MaxNameLen characters

Unassigned == [type |-> "unassigned"]
NotADict == [type |-> "list"]

OptionKeys == {"size", "sharpen", "detail", "upscale", "format", "quality", "bogus"}
OptionValue(key, n) ==
    CASE key = "size" -> IF n = 1 THEN <<2, 3>> ELSE None
      [] key \in {"sharpen", "detail", "upscale"} -> (n = 1)
      [] key = "format" -> IF n = 1 THEN PNG ELSE <<"j", "p", "e", "g">>
      [] OTHER -> n

\* The sequences of distinct keys of length at most n.
RECURSIVE KeySeqs(_)
KeySeqs(n) ==
    IF n = 0 THEN {<<>>}
    ELSE KeySeqs(n - 1) \cup
         {Append(ks, k) : ks \in {q \in KeySeqs(n - 1) : Len(q) = n - 1},
                          k \in OptionKeys}
DistinctKeySeqs(n) ==
    {ks \in KeySeqs(n) : \A i, j \in 1..Len(ks) : i # j => ks[i] # ks[j]}

Formats == {JPEG, PNG}
Identifiers == {<<"s">>, <<"s", "m", "a", "l", "l">>}

InitSettings ==
    \E format \in Formats, dir \in {<<>>, <<"t">>, <<"t", "h", "u", "m", "b", "s">>} :
        settings = [THUMBNAILS_FORMAT |-> format, THUMBNAILS_DIRNAME |-> dir]

InitOpts ==
    /\ cr = [outcome |-> "none"]
    /\ \E format \in Formats :
           settings = [THUMBNAILS_FORMAT |-> format, THUMBNAILS_DIRNAME |-> <<>>]
    /\ \E id \in Identifiers :
           \/ self = [identifier |-> None, proc_opts |-> Unassigned, ext |-> None]
           \/ self = [identifier |-> id, proc_opts |-> Unassigned, ext |-> None]
    /\ op = "setup_image_processing_options"
    /\ \/ args = <<NoneObj>>
       \/ args = <<NotADict>>
       \/ \E ks \in DistinctKeySeqs(MaxOpts), pick \in [OptionKeys -> 1..2] :
              args = <<Dict([i \in 1..Len(ks) |->
                               <<ks[i], OptionValue(ks[i], pick[ks[i]])>>])>>
    /\ raised = NoError /\ ret = None
    /\ pc = "call" /\ im = <<>> /\ out = <<>>

SetupOptions ==
    /\ pc = "call" /\ op = "setup_image_processing_options"
    /\ LET r == setup_image_processing_options(self, args[1])
       IN  self' = r.self /\ raised' = r.raised
    /\ pc' = "done"
    /\ UNCHANGED <<cr, settings, op, args, ret, im, out>>

NextOpts == SetupOptions
SpecOpts == InitOpts /\ [][NextOpts]_vars

\* ------------------------------------------------ the naming specification
Chars == {"a", ".", "/"}
RECURSIVE StrsUpTo(_)
StrsUpTo(n) ==
    IF n = 0 THEN {<<>>}
    ELSE StrsUpTo(n - 1) \cup
         {Append(str, c) : str \in {q \in StrsUpTo(n - 1) : Len(q) = n - 1},
                           c \in Chars}

ImagesPhotoJpg ==
    <<"i", "m", "a", "g", "e", "s", "/", "p", "h", "o", "t", "o", ".", "j", "p", "g">>

Names == StrsUpTo(MaxNameLen) \cup {ImagesPhotoJpg}

\* The options an instance can hold when its name is generated: what
\* setup_image_processing_options leaves for None, {} or {'format': ...}.
NamingOptions ==
    {NoneObj, Dict(<<>>), Dict(<< <<"format", PNG>> >>),
     Dict(<< <<"format", <<"j", "p", "e", "g">>>> >>),
     Dict(<< <<"format", None>> >>)}

InitName ==
    /\ cr = [outcome |-> "none"]
    /\ InitSettings
    /\ \E id \in Identifiers \cup {None}, o \in NamingOptions :
           LET r == setup_image_processing_options(
                        [identifier |-> id, proc_opts |-> Unassigned, ext |-> None], o)
           IN  r.raised = NoError /\ self = r.self
    /\ op = "generate_image_name"
    /\ \/ \E name \in Names, force_ext \in {<<>>, <<".", "a">>} :
              args = <<name, force_ext>>
       \/ \E name \in Names : args = <<name, None>>
       \/ \E force_ext \in {<<>>, <<".", "a">>} : args = <<None, force_ext>>
       \/ args = <<None, None>>
    /\ raised = NoError /\ ret = None
    /\ pc = "call" /\ im = <<>> /\ out = <<>>

GenerateImageName ==
    /\ pc = "call" /\ op = "generate_image_name"
    /\ LET r == generate_image_name(self, args[1], args[2])
       IN  self' = r.self /\ raised' = r.raised /\ ret' = r.ret
    /\ pc' = "done"
    /\ UNCHANGED <<cr, settings, op, args, im, out>>

NextName == GenerateImageName
SpecName == InitName /\ [][NextName]_vars

\* ------------------------------------- the process_image specification
\* Image.convert('RGB')
convert(image) ==
    [image EXCEPT !.mode = "RGB", !.history = Applied(image, "convert", <<>>)]

\* Image.filter(ImageFilter.SHARPEN) and Image.filter(ImageFilter.DETAIL)
filter(image, name) == [image EXCEPT !.history = Applied(image, name, <<>>)]

\* The formats Image.save has an encoder for, whatever their case.
CanEncode(format) == lower(format) \in {lower(JPEG), lower(PNG)}

Corrupt == [size |-> <<0, 0>>, mode |-> "", orientation |-> NoExif,
            history |-> <<>>]
ContentImages ==
    {NewImage(size[1], size[2], mode, o) :
         size \in {<<4, 2>>, <<1, 3>>}, mode \in Modes, o \in {NoExif, 6}}
    \cup {Corrupt}

\* The options an instance can hold when its image is processed.
InitProcess ==
    /\ cr = [outcome |-> "none"]
    /\ settings = [THUMBNAILS_FORMAT |-> JPEG, THUMBNAILS_DIRNAME |-> <<>>]
    /\ \E ext \in {<<".", "j", "p", "g">>, <<".", "p", "n", "g">>} :
       \/ self = [identifier |-> None, proc_opts |-> NoneObj, ext |-> ext]
       \/ \E id \in {None, <<"s">>},
             size \in {None, <<2, 2>>, <<1, Unset>>, <<5, 5>>},
             sharpen \in BOOLEAN, detail \in BOOLEAN, upscale \in BOOLEAN,
             format \in {JPEG, PNG, None} :
              LET given == Dict(<< <<"size", size>>, <<"sharpen", sharpen>>,
                                   <<"detail", detail>>, <<"upscale", upscale>>,
                                   <<"format", format>> >>)
                  r == setup_image_processing_options(
                           [identifier |-> id, proc_opts |-> Unassigned,
                            ext |-> ext], given)
              IN  r.raised = NoError /\ self = r.self
    /\ op = "process_image"
       \* content: given open, given closed, or None; and whether the storage
       \* can be read when it has to be
    /\ \E image \in ContentImages, how \in {"open", "closed", "None"},
          storage \in {"ok", "IOError"} :
           /\ how = "open" => storage = "ok"
           /\ args = <<[how |-> how, storage |-> storage, image |-> image]>>
    /\ raised = NoError /\ ret = None
    /\ pc = "call" /\ im = <<>> /\ out = <<>>

Raise(exc) ==
    /\ raised' = [exc |-> exc]
    /\ pc' = "raised"

\* Lines 159-167: the content is fetched if need be, rewound and decoded.
Open ==
    /\ pc = "call" /\ op = "process_image"
    /\ IF args[1].how # "open" /\ args[1].storage = "IOError"
       THEN Raise("Exception") /\ UNCHANGED im
       ELSE IF args[1].image = Corrupt
       THEN Raise("IOError") /\ UNCHANGED im
       ELSE im' = args[1].image /\ pc' = "opened" /\ UNCHANGED raised
    /\ UNCHANGED <<cr, settings, self, op, args, ret, out>>

\* Lines 170-171
Convert ==
    /\ pc = "opened"
    /\ im' = IF im.mode \notin {"L", "RGB", "RGBA"} THEN convert(im) ELSE im
    /\ pc' = "converted"
    /\ UNCHANGED <<cr, settings, self, op, args, raised, ret, out>>

\* Lines 174-175: self.proc_opts['size'], which None does not support.
ReadOptions ==
    /\ pc = "converted"
    /\ IF IsDict(self.proc_opts)
       THEN pc' = "options" /\ UNCHANGED raised
       ELSE Raise("TypeError")
    /\ UNCHANGED <<cr, settings, self, op, args, ret, im, out>>

\* Lines 177-179
Resize ==
    /\ pc = "options"
    /\ IF Get(self.proc_opts, "size") # None
       THEN LET r == crop_resize(im, Get(self.proc_opts, "size"),
                                 Get(self.proc_opts, "upscale"))
            IN  /\ cr' = r
                /\ IF r.outcome \in {"AssertionError", "ZeroDivisionError"}
                   THEN Raise(r.outcome) /\ UNCHANGED im
                   ELSE im' = r.result /\ pc' = "resized" /\ UNCHANGED raised
       ELSE pc' = "resized" /\ UNCHANGED <<cr, im, raised>>
    /\ UNCHANGED <<settings, self, op, args, ret, out>>

\* Lines 181-183
Sharpen ==
    /\ pc = "resized"
    /\ im' = IF Get(self.proc_opts, "sharpen") THEN filter(im, "sharpen") ELSE im
    /\ pc' = "sharpened"
    /\ UNCHANGED <<cr, settings, self, op, args, raised, ret, out>>

\* Lines 185-187
Detail ==
    /\ pc = "sharpened"
    /\ im' = IF Get(self.proc_opts, "detail") THEN filter(im, "detail") ELSE im
    /\ pc' = "detailed"
    /\ UNCHANGED <<cr, settings, self, op, args, raised, ret, out>>

\* Lines 190-200
Save ==
    /\ pc = "detailed"
    /\ LET format == IF Truthy(Get(self.proc_opts, "format"))
                     THEN Get(self.proc_opts, "format") ELSE self.ext
       IN  IF CanEncode(format)
           THEN /\ out' = [image |-> im, format |-> format,
                           quality |-> (format = JPEG)]
                /\ pc' = "returned"
                /\ UNCHANGED raised
           ELSE Raise("KeyError") /\ UNCHANGED out
    /\ UNCHANGED <<cr, settings, self, op, args, ret, im>>

Next ==
    \/ Open
    \/ Convert
    \/ ReadOptions
    \/ Resize
    \/ Sharpen
    \/ Detail
    \/ Save

Init == InitProcess
Spec == Init /\ [][Next]_vars

\* ----------------------------------------- properties of crop_resize
Called == cr.outcome \in {"ZeroDivisionError", "unchanged", "resized"}
BothSet == cr.size[1] # Unset /\ cr.size[2] # Unset
OneSet == (cr.size[1] = Unset) # (cr.size[2] = Unset)
IsFloorOf(q, num, den) == q * den <= num /\ num < (q + 1) * den
Abs(x) == IF x < 0 THEN -x ELSE x
HistoryOps(image) == {image.history[i].op : i \in 1..Len(image.history)}

\* C1: whenever crop_resize reaches its final resize, the size it passes to
\* it is the requested target, an unset dimension replaced by the value
\* derived from the original aspect ratio.
C1_ResizeGetsDerivedTarget ==
    cr.outcome = "resized" =>
        /\ Len(cr.resize_size) = 2
        /\ IF cr.size[1] = Unset
           THEN IsFloorOf(cr.resize_size[1],
                          cr.image.size[1] * cr.size[2], cr.image.size[2])
           ELSE cr.resize_size[1] = cr.size[1]
        /\ IF cr.size[2] = Unset
           THEN IsFloorOf(cr.resize_size[2],
                          cr.image.size[2] * cr.size[1], cr.image.size[1])
           ELSE cr.resize_size[2] = cr.size[2]

TrimsOneDimension ==
    LET w == cr.original_width
        h == cr.original_height
    IN  IF w * cr.size[2] > cr.size[1] * h
        THEN /\ Len(cr.box) = 4
             /\ cr.box[2] = 0 /\ cr.box[4] = h
             /\ cr.box[1] >= 0 /\ cr.box[3] = w - cr.box[1]
        ELSE /\ Len(cr.box) = 4
             /\ cr.box[1] = 0 /\ cr.box[3] = w
             /\ cr.box[2] >= 0 /\ cr.box[4] = h - cr.box[2]

\* How far, in pixels of the trimmed dimension times the target's other
\* dimension, the box is from the target's aspect ratio:
\* |cw - (tw/th)*ch| * th for a trimmed width, |ch - cw*(th/tw)| * tw for a
\* trimmed height.
AspectError == Abs((cr.box[3] - cr.box[1]) * cr.size[2]
                     - cr.size[1] * (cr.box[4] - cr.box[2]))
TrimmedUnit ==
    IF cr.original_width * cr.size[2] > cr.size[1] * cr.original_height
    THEN cr.size[2] ELSE cr.size[1]

C3_Case ==
    /\ cr.outcome = "resized" /\ BothSet
    /\ cr.original_width * cr.size[2] # cr.size[1] * cr.original_height

\* C3 as stated: with both dimensions set and w/h # tw/th, one of width or
\* height is trimmed symmetrically and the box's aspect ratio is the
\* target's within 1 pixel.
C3_WithinOnePixel ==
    C3_Case => TrimsOneDimension /\ AspectError <= TrimmedUnit

\* C3 amended: as stated, but the box's aspect ratio is the target's within
\* 2 pixels: each side gives up a whole number of pixels, so the kept extent
\* exceeds the ideal one by up to 2.
C3_WithinTwoPixels ==
    C3_Case => TrimsOneDimension /\ AspectError <= 2 * TrimmedUnit

C3_Witness ==
    /\ C3_Case
    /\ cr.image.size = <<5, 2>> /\ cr.size = <<1, 1>>
    /\ cr.box = <<1, 0, 4, 2>>

\* C4: with exactly one target dimension set, the other is derived as
\* floor(original_other * given / original_given) and no crop is applied.
C4_MissingDimensionDerived ==
    (Called /\ OneSet) =>
        /\ IF cr.size[2] = Unset
           THEN /\ cr.new_width = cr.size[1]
                /\ IsFloorOf(cr.new_height,
                             cr.image.size[2] * cr.size[1], cr.image.size[1])
           ELSE /\ cr.new_height = cr.size[2]
                /\ IsFloorOf(cr.new_width,
                             cr.image.size[1] * cr.size[2], cr.image.size[2])
        /\ ~cr.crop /\ cr.box = <<>>
        /\ "crop" \notin HistoryOps(cr.result)

C4_Witness ==
    /\ Called /\ OneSet
    /\ cr.image.size = <<3, 5>> /\ cr.size = <<2, Unset>>
    /\ cr.new_height = 3 /\ cr.outcome = "resized"

\* C5: for an image tagged 3, 6 or 8 the original width and height the
\* geometry is computed from are those of the rotated image.
C5_GeometryFromRotatedSize ==
    (Called /\ cr.image.orientation \in {3, 6, 8}) =>
        <<cr.original_width, cr.original_height>> = cr.rotated.size

\* C10: a crop box lies inside the image it is applied to.
C10_BoxInsideImage ==
    (cr.outcome = "resized" /\ cr.box # <<>>) =>
        /\ 0 <= cr.box[1] /\ cr.box[1] <= cr.box[3] /\ cr.box[3] <= cr.cropped[1]
        /\ 0 <= cr.box[2] /\ cr.box[2] <= cr.box[4] /\ cr.box[4] <= cr.cropped[2]

\* ------------------------------ properties of the ImageProcessor
OptionNames == {"size", "sharpen", "detail", "upscale", "format"}
SetupDone == op = "setup_image_processing_options" /\ pc = "done"
IsVariant == self.identifier # None

\* C7: setup_image_processing_options raises ThumbnailOptionError exactly
\* when the options are None on a variant, are neither None nor a dict, or
\* are a dict with a key that is no option name, and then the error names
\* such a key of the dict; in every other case it raises nothing.
C7_InvalidOptionCases ==
    SetupDone =>
        LET given == args[1]
            unknown == IF given.type = "dict" THEN Keys(given) \ OptionNames ELSE {}
        IN  /\ raised.exc \in {"", "ThumbnailOptionError"}
            /\ raised.exc = "ThumbnailOptionError" <=>
                   \/ given.type = "NoneType" /\ IsVariant
                   \/ given.type \notin {"NoneType", "dict"}
                   \/ unknown # {}
            /\ unknown # {} => raised.option \in unknown

C7_Witness ==
    /\ SetupDone /\ ~IsVariant
    /\ args[1].type = "dict" /\ Len(args[1].items) = 2
    /\ args[1].items[1][1] = "size" /\ args[1].items[2][1] = "bogus"
    /\ raised = ThumbnailOptionError("bogus")

DefaultOf(key) ==
    CASE key = "size" -> None
      [] key = "format" -> settings.THUMBNAILS_FORMAT
      [] OTHER -> FALSE

\* C9: after a successful call with a dict the stored options have exactly
\* the five option names as keys, each holding the supplied value if the
\* dict supplies one and its default otherwise.
C9_DefaultsOverlaid ==
    (SetupDone /\ raised = NoError /\ args[1].type = "dict") =>
        /\ self.proc_opts.type = "dict"
        /\ Len(self.proc_opts.items) = 5
        /\ Keys(self.proc_opts) = OptionNames
        /\ \A key \in OptionNames :
               Get(self.proc_opts, key) =
                   IF key \in Keys(args[1]) THEN Get(args[1], key)
                   ELSE DefaultOf(key)

C9_Witness ==
    /\ SetupDone /\ raised = NoError /\ args[1].type = "dict"
    /\ Keys(args[1]) = {"size", "format"}
    /\ Get(self.proc_opts, "size") = <<2, 3>>
    /\ Get(self.proc_opts, "format") = PNG
    /\ Get(self.proc_opts, "sharpen") = FALSE
    /\ settings.THUMBNAILS_FORMAT = JPEG

NameDone == op = "generate_image_name" /\ pc = "done"

\* The extension C8 describes: force_ext if given; else, from the format,
\* '.jpg' for JPEG (however its letters are cased) and '.' + the lowercased
\* format otherwise; else, with no options, the base name's own extension.
C8_Ext(name, force_ext) ==
    IF force_ext # None THEN force_ext
    ELSE IF self.proc_opts.type = "NoneType" THEN splitext(basename(name))[2]
    ELSE IF lower(Get(self.proc_opts, "format")) = lower(JPEG)
    THEN <<".", "j", "p", "g">>
    ELSE <<".">> \o lower(Get(self.proc_opts, "format"))

C8_Path(name, force_ext) ==
    LET directory == dirname(name)
        stem == splitext(basename(name))[1]
        ext == C8_Ext(name, force_ext)
        subdirectory == settings.THUMBNAILS_DIRNAME
    IN  IF self.identifier = None
        THEN join(directory, stem \o ext)
        ELSE IF subdirectory # <<>>
        THEN join(join(directory, subdirectory),
                  stem \o <<".">> \o self.identifier \o ext)
        ELSE join(directory, stem \o <<".">> \o self.identifier \o ext)

\* The claim covers a format that is a str; a format of None (which
\* process_image allows for, line 190) is outside it unless force_ext is given.
C8_Covers ==
    \/ args[2] # None
    \/ self.proc_opts.type = "NoneType"
    \/ Get(self.proc_opts, "format") # None

\* C8: generate_image_name raises the invalid-path error for an empty or
\* None base name; otherwise it returns directory/stem+ext for a source and
\* directory/[THUMBNAILS_DIRNAME/]stem.identifier+ext for a variant, ext as
\* described; in particular images/photo.jpg gives images/photo.png for a
\* source with format PNG and images/thumbs/photo.small.jpg for the variant
\* small with format JPEG and subdirectory thumbs.
C8_GeneratedName ==
    (NameDone /\ C8_Covers) =>
        /\ args[1] \in {None, <<>>} =>
               raised = ThumbnailWorksError
        /\ args[1] \notin {None, <<>>} =>
               /\ raised = NoError
               /\ ret = C8_Path(args[1], args[2])
        /\ ( /\ args = <<ImagesPhotoJpg, None>>
             /\ self.identifier = None
             /\ self.proc_opts.type = "dict"
             /\ Get(self.proc_opts, "format") = PNG )
           => ret = <<"i", "m", "a", "g", "e", "s", "/",
                      "p", "h", "o", "t", "o", ".", "p", "n", "g">>
        /\ ( /\ args = <<ImagesPhotoJpg, None>>
             /\ self.identifier = <<"s", "m", "a", "l", "l">>
             /\ self.proc_opts.type = "dict"
             /\ Get(self.proc_opts, "format") = JPEG
             /\ settings.THUMBNAILS_DIRNAME = <<"t", "h", "u", "m", "b", "s">> )
           => ret = <<"i", "m", "a", "g", "e", "s", "/",
                      "t", "h", "u", "m", "b", "s", "/",
                      "p", "h", "o", "t", "o", ".",
                      "s", "m", "a", "l", "l", ".", "j", "p", "g">>

C8_Witness ==
    /\ NameDone /\ raised = NoError
    /\ args = <<ImagesPhotoJpg, None>>
    /\ self.identifier = <<"s", "m", "a", "l", "l">>
    /\ self.proc_opts.type = "dict"
    /\ Get(self.proc_opts, "format") = JPEG
    /\ settings.THUMBNAILS_DIRNAME = <<"t", "h", "u", "m", "b", "s">>
    /\ Len(ret) = 29

\* -------------------------------------- properties of process_image
\* C6: with no processing options, process_image, once it has decoded and
\* colour-normalized the image, completes: it returns the image, neither
\* resized nor filtered, encoded.
C6_NoOptionsReturnsImage ==
    ( /\ op = "process_image" /\ self.proc_opts.type = "NoneType"
      /\ pc \notin {"call", "opened", "converted"}
      /\ im # <<>> ) =>
        /\ pc = "returned"
        /\ raised = NoError
        /\ HistoryOps(out.image) \subseteq {"convert"}

\* The place of each transformation in the order decode, color-normalize,
\* orientation-normalize, crop, resize, sharpen, detail, encode.
StageRank(name) ==
    CASE name = "convert" -> 1 [] name = "rotate" -> 2 [] name = "crop" -> 3
      [] name = "resize" -> 4 [] name = "sharpen" -> 5 [] name = "detail" -> 6
      [] OTHER -> 0

PastResize == pc \in {"resized", "sharpened", "detailed", "returned"}

\* C11: a run of process_image with validated options applies its stages in
\* the order color-normalize, orientation-normalize, crop and resize (or
\* neither), sharpen, detail, none of them twice or out of turn; the
\* orientation is normalized in every run, also when no size is set; and
\* sharpen and detail are applied exactly when their own option is on.
C11_StagesInOrder ==
    (op = "process_image" /\ IsDict(self.proc_opts) /\ im # <<>>) =>
        /\ \A i, j \in 1..Len(im.history) :
               i < j => StageRank(im.history[i].op) < StageRank(im.history[j].op)
        /\ (PastResize /\ im.orientation \in {3, 6, 8}) =>
               "rotate" \in HistoryOps(im)
        /\ pc \in {"sharpened", "detailed", "returned"} =>
               ("sharpen" \in HistoryOps(im)) = Get(self.proc_opts, "sharpen")
        /\ pc \in {"detailed", "returned"} =>
               ("detail" \in HistoryOps(im)) = Get(self.proc_opts, "detail")
        /\ pc = "returned" => out.image = im

=============================================================================
